---- MODULE Spec2Model ----
(***************************************************************************)
(* Model of the kopia metadata manager (metadata/metadata_manager.go):    *)
(* a keyed store of named items over a blob storage backend, with         *)
(* reserved-name protection, optional AES256-GCM sealing of the stored    *)
(* blobs, JSON helpers and the bounded worker pools of MultiGet and       *)
(* RemoveMany.                                                             *)
(***************************************************************************)
EXTENDS Integers, Sequences, FiniteSets, Bags, TLC

VARIABLES
    alg,          \* mm.Format.EncryptionAlgorithm; mm.aead # nil iff "AES256_GCM"
    data,         \* the storage backend: block name -> stored bytes
    faulty,       \* names on which the backend answers with an I/O error
    cachedNames,  \* metadataCache: the list of known block names
    lastOp,       \* the last completed call: operation, argument, results
    written,      \* history: what the manager last wrote under each name
    ext,          \* history: how another writer changed a name since then
    mg,           \* a MultiGet call: its goroutines, channels and results
    rm,           \* a RemoveMany call: its goroutines, channels and results
    blocks,       \* the storage backend: keys of the block layer -> stored block
    bm,           \* the block manager: in-memory index, pack group, clock
    writer,       \* the object writer in use: buffer, entries, result
    objects,      \* history: the objects written, with the bytes written
    lastObj,      \* the last completed call of the object layer
    hist          \* history: the calls on the repository so far, in brief

mgrVars == <<alg, data, faulty, cachedNames, lastOp, written, ext>>

objVars == <<blocks, bm, writer, objects, lastObj, hist>>

vars == <<alg, data, faulty, cachedNames, lastOp, written, ext, mg, rm, objVars>>

---------------------------------------------------------------------------
(* Bounds of the model *)

MaxContentLen == 1     \* longest content handed to Put
NumNonces == 2         \* distinct outcomes of the random nonce
MaxShortList == 2      \* longest of the exhaustively enumerated item lists
Overflow == 1          \* items by which the long list exceeds the pool
MaxBlockSize == 6      \* NewRepositoryOptions.MaxBlockSize: the chunk cap
PackSizeTarget == 16   \* size at which the block manager seals a pack group
MaxClock == 4          \* Flush and CompactIndexes calls, by the clock

(* Program constants *)

parallelFetches == 5
MaxStreamLen == 24     \* bytes of the streams the objects are cut from
HashMul == 131         \* multiplier of the content-address digest
HashMod == 1000003     \* range of the content-address digest
NonceSize == 12        \* cipher.AEAD.NonceSize() of GCM
Overhead == 16         \* cipher.AEAD.Overhead() of GCM
KeyLen == 32           \* length passed to km.DeriveKey

---------------------------------------------------------------------------
(* Names, bytes, errors *)

Names == {"format", "repo", "a", "b"}

\* the names the calls of the sequential specification are given
ItemIDs == {"format", "repo", "a"}

ContentBytes == {7}

Contents == UNION {[1..n -> ContentBytes] : n \in 0..MaxContentLen}

RECURSIVE SumTo(_, _)
SumTo(s, n) == IF n = 0 THEN 0 ELSE s[n] + SumTo(s, n - 1)

SumSeq(s) == SumTo(s, Len(s))

\* an error value: its message and the item it names ("" when it names none)
Err(msg, id) == [msg |-> msg, id |-> id]

Nil == Err("nil", "")

ErrNotFound == Err("metadata not found", "")

ErrBlockNotFound == Err("block not found", "")

ErrIO == Err("backend i/o error", "")

ErrRand == Err("rand: unexpected EOF", "")

ErrOpen == Err("cipher: message authentication failed", "")

ErrMarshal == Err("json: unsupported type", "")

ErrUnmarshal == Err("json: invalid character", "")

ErrPanic == Err("panic: slice bounds out of range", "")

ErrMalformed == Err("malformed data", "")

ErrSeek == Err("seek past end", "")

ErrInvalidName(id) == Err("invalid metadata item name", id)

ErrUnexpected(id) == Err("unexpected error reading", id)

isReservedName(itemID) == itemID \in {"format", "repo"}

checkReservedName(itemID) ==
    IF isReservedName(itemID) THEN ErrInvalidName(itemID) ELSE Nil

---------------------------------------------------------------------------
(* Key derivation and AES-256-GCM.  The cipher is the library's; the model *)
(* keeps its interface: Seal appends a tag of Overhead bytes that depends  *)
(* on key, nonce, ciphertext and additional data, Open recomputes it.      *)

purposeAESKey == 65

purposeAuthData == 67

DeriveKey(purpose, length) == [i \in 1..length |-> (purpose * 3 + i) % 256]

aesKey == DeriveKey(purposeAESKey, KeyLen)

authData == DeriveKey(purposeAuthData, KeyLen)

Nonces == {[i \in 1..NonceSize |-> IF i = 1 THEN k ELSE 0] : k \in 0..(NumNonces - 1)}

\* the seed of the key stream for one nonce
KeyStream(key, nonce) == (key[1] + 5 * SumSeq(nonce)) % 256

GCMTag(key, nonce, ct, ad) ==
    LET s == (key[Len(key)] + ad[1] + ad[Len(ad)] + 3 * SumSeq(nonce) + SumSeq(ct)
                + 7 * Len(ct)) % 256
    IN  [k \in 1..Overhead |-> (s + k) % 256]

\* aead.Seal(dst, nonce, plaintext, additionalData): ciphertext followed by the tag
GCMSeal(key, nonce, pt, ad) ==
    LET ks == KeyStream(key, nonce)
        ct == [i \in 1..Len(pt) |-> (pt[i] + ks + 13 * i) % 256]
    IN  ct \o GCMTag(key, nonce, ct, ad)

\* aead.Open(dst, nonce, ciphertext, additionalData)
GCMOpen(key, nonce, payload, ad) ==
    IF Len(payload) < Overhead
    THEN [err |-> ErrOpen, out |-> <<>>]
    ELSE LET n == Len(payload) - Overhead
             ct == SubSeq(payload, 1, n)
             tag == SubSeq(payload, n + 1, Len(payload))
         IN  IF tag # GCMTag(key, nonce, ct, ad)
             THEN [err |-> ErrOpen, out |-> <<>>]
             ELSE LET ks == KeyStream(key, nonce)
                  IN  [err |-> Nil,
                       out |-> [i \in 1..n |-> (ct[i] + 512 - ks - 13 * i) % 256]]

---------------------------------------------------------------------------
(* encoding/json on the values the model passes: arrays of one-digit      *)
(* numbers, and one value of a type json.Marshal does not support.        *)

JSONValues ==
    {[ok |-> TRUE, elems |-> e] : e \in {<<>>, <<4, 2>>}}
        \cup {[ok |-> FALSE, elems |-> <<>>]}

RECURSIVE JoinDigits(_)
JoinDigits(e) ==
    IF e = <<>> THEN <<>>
    ELSE IF Len(e) = 1 THEN <<48 + e[1]>>
    ELSE <<48 + e[1], 44>> \o JoinDigits(Tail(e))

\* json.Marshal
Marshal(v) ==
    IF ~v.ok THEN [err |-> ErrMarshal, out |-> <<>>]
    ELSE [err |-> Nil, out |-> <<91>> \o JoinDigits(v.elems) \o <<93>>]

\* json.Unmarshal
Unmarshal(j) ==
    LET inner == SubSeq(j, 2, Len(j) - 1)
        wellFormed ==
            /\ Len(j) >= 2
            /\ j[1] = 91
            /\ j[Len(j)] = 93
            /\ \/ inner = <<>>
               \/ /\ Len(inner) % 2 = 1
                  /\ \A i \in 1..Len(inner) :
                        IF i % 2 = 1 THEN inner[i] \in 48..57 ELSE inner[i] = 44
    IN  IF ~wellFormed THEN [err |-> ErrUnmarshal, out |-> <<>>]
        ELSE [err |-> Nil,
              out |-> [k \in 1..((Len(inner) + 1) \div 2) |-> inner[2 * k - 1] - 48]]

---------------------------------------------------------------------------
(* metadataCache over the storage backend *)

\* storage.PutBlock through the cache: the block is stored and its name listed
cachePutBlock(itemID, content) ==
    IF itemID \in faulty
    THEN [err |-> ErrIO, data |-> data, cached |-> cachedNames]
    ELSE [err |-> Nil,
          data |-> [n \in (DOMAIN data) \cup {itemID} |->
                        IF n = itemID THEN content ELSE data[n]],
          cached |-> cachedNames \cup {itemID}]

\* storage.GetBlock through the cache
cacheGetBlock(itemID) ==
    IF itemID \in faulty THEN [err |-> ErrIO, out |-> <<>>]
    ELSE IF itemID \notin DOMAIN data THEN [err |-> ErrBlockNotFound, out |-> <<>>]
    ELSE [err |-> Nil, out |-> data[itemID]]

\* storage.DeleteBlock through the cache: the block and its listed name go
cacheDeleteBlock(itemID) ==
    IF itemID \in faulty
    THEN [err |-> ErrIO, data |-> data, cached |-> cachedNames]
    ELSE [err |-> Nil,
          data |-> [n \in (DOMAIN data) \ {itemID} |-> data[n]],
          cached |-> cachedNames \ {itemID}]

\* the characters of a name
Chars(n) ==
    CASE n = "format" -> <<"f", "o", "r", "m", "a", "t">>
      [] n = "repo" -> <<"r", "e", "p", "o">>
      [] n = "a" -> <<"a">>
      [] n = "b" -> <<"b">>

\* strings.HasPrefix on the characters of name and prefix
HasPrefix(name, prefix) ==
    /\ Len(prefix) <= Len(name)
    /\ SubSeq(name, 1, Len(prefix)) = prefix

\* the prefixes List and ListContents are given
Prefixes == {<<>>, <<"a">>, <<"r", "e">>}

\* the names in the order of sorted strings
SortedNames == <<"a", "b", "format", "repo">>

\* ListBlocks of the cache: the known names that start with prefix, sorted
cacheListBlocks(prefix) ==
    SelectSeq(SortedNames, LAMBDA n : n \in cachedNames /\ HasPrefix(Chars(n), prefix))

\* the names the backend holds that start with prefix, sorted
storageListBlocks(prefix) ==
    SelectSeq(SortedNames, LAMBDA n : n \in DOMAIN data /\ HasPrefix(Chars(n), prefix))

\* refresh of the cache: the list of names is read again from the backend
cacheRefresh(ok) ==
    IF ~ok
    THEN [err |-> ErrIO, cached |-> cachedNames]
    ELSE [err |-> Nil, cached |-> DOMAIN data]

---------------------------------------------------------------------------
(* Manager: sealing and opening of stored blobs *)

\* the outcomes of io.ReadFull(rand.Reader, nonce)
RandOutcomes ==
    {[ok |-> TRUE, nonce |-> n] : n \in Nonces}
        \cup {[ok |-> FALSE, nonce |-> [i \in 1..NonceSize |-> 0]]}

\* writeEncryptedBlock: the blob handed to the cache, or the error before it
sealBlock(content, rnd) ==
    IF alg = "AES256_GCM"
    THEN IF ~rnd.ok
         THEN [err |-> ErrRand, out |-> <<>>]
         ELSE [err |-> Nil,
               out |-> rnd.nonce \o GCMSeal(aesKey, rnd.nonce, content, authData)]
    ELSE [err |-> Nil, out |-> content]

\* writeEncryptedBlock storing through mm.storage, past the cache
writeEncryptedBlock_direct(itemID, content, rnd) ==
    LET s == sealBlock(content, rnd)
        p == cachePutBlock(itemID, s.out)
    IN  IF s.err # Nil
        THEN [err |-> s.err, data |-> data, cached |-> cachedNames,
              touched |-> FALSE, blob |-> <<>>]
        ELSE [err |-> p.err, data |-> p.data, cached |-> cachedNames,
              touched |-> TRUE, blob |-> s.out]

writeEncryptedBlock(itemID, content, rnd) ==
    LET s == sealBlock(content, rnd)
        p == cachePutBlock(itemID, s.out)
    IN  IF s.err # Nil
        THEN [err |-> s.err, data |-> data, cached |-> cachedNames,
              touched |-> FALSE, blob |-> <<>>]
        ELSE [err |-> p.err, data |-> p.data, cached |-> p.cached,
              touched |-> TRUE, blob |-> s.out]

\* decryptBlock with the payload taken one byte too late
decryptBlock_shifted(content) ==
    IF alg = "AES256_GCM"
    THEN IF Len(content) < NonceSize + 1
         THEN [err |-> ErrPanic, out |-> <<>>]
         ELSE LET nonce == SubSeq(content, 1, NonceSize)
                  payload == SubSeq(content, NonceSize + 2, Len(content))
              IN  GCMOpen(aesKey, nonce, payload, authData)
    ELSE [err |-> Nil, out |-> content]

\* decryptBlock with the error of aead.Open dropped
decryptBlock_unchecked(content) ==
    IF alg = "AES256_GCM"
    THEN IF Len(content) < NonceSize
         THEN [err |-> ErrPanic, out |-> <<>>]
         ELSE LET nonce == SubSeq(content, 1, NonceSize)
                  payload == SubSeq(content, NonceSize + 1, Len(content))
              IN  [err |-> Nil, out |-> GCMOpen(aesKey, nonce, payload, authData).out]
    ELSE [err |-> Nil, out |-> content]

decryptBlock(content) ==
    IF alg = "AES256_GCM"
    THEN IF Len(content) < NonceSize
         THEN [err |-> ErrPanic, out |-> <<>>]
         ELSE LET nonce == SubSeq(content, 1, NonceSize)
                  payload == SubSeq(content, NonceSize + 1, Len(content))
              IN  GCMOpen(aesKey, nonce, payload, authData)
    ELSE [err |-> Nil, out |-> content]

\* readEncryptedBlock without the case of storage.ErrBlockNotFound
readEncryptedBlock_wrapsAll(itemID) ==
    LET g == cacheGetBlock(itemID)
    IN  IF g.err # Nil
        THEN [err |-> ErrUnexpected(itemID), out |-> <<>>]
        ELSE decryptBlock(g.out)

\* readEncryptedBlock handing on the error of the cache as it is
readEncryptedBlock_asIs(itemID) ==
    LET g == cacheGetBlock(itemID)
    IN  IF g.err # Nil
        THEN IF g.err = ErrBlockNotFound
             THEN [err |-> ErrNotFound, out |-> <<>>]
             ELSE [err |-> g.err, out |-> <<>>]
        ELSE decryptBlock(g.out)

readEncryptedBlock(itemID) ==
    LET g == cacheGetBlock(itemID)
    IN  IF g.err # Nil
        THEN IF g.err = ErrBlockNotFound
             THEN [err |-> ErrNotFound, out |-> <<>>]
             ELSE [err |-> ErrUnexpected(itemID), out |-> <<>>]
        ELSE decryptBlock(g.out)

\* GetMetadata as a function of the current storage
getMetadata(itemID) ==
    IF checkReservedName(itemID) # Nil
    THEN [err |-> checkReservedName(itemID), out |-> <<>>, touched |-> FALSE]
    ELSE LET r == readEncryptedBlock(itemID)
         IN  [err |-> r.err, out |-> r.out, touched |-> TRUE]

---------------------------------------------------------------------------
(* Manager: the calls, each one step *)

Done(op, id, err, out, touched) ==
    [op |-> op, id |-> id, err |-> err, out |-> out, touched |-> touched]

\* the history kept after a write of blob/content under itemID by the manager
NoteWrite(itemID, w, content, isJSON, elems) ==
    IF w.err = Nil
    THEN /\ written' = [n \in (DOMAIN written) \cup {itemID} |->
                IF n = itemID
                THEN [blob |-> w.blob, content |-> content, json |-> isJSON, elems |-> elems]
                ELSE written[n]]
         /\ ext' = [ext EXCEPT ![itemID] = "none"]
    ELSE UNCHANGED <<written, ext>>

Put(itemID, content, rnd) ==
    /\ IF checkReservedName(itemID) # Nil
       THEN /\ lastOp' = Done("Put", itemID, checkReservedName(itemID), <<>>, FALSE)
            /\ UNCHANGED <<data, cachedNames, written, ext>>
       ELSE LET w == writeEncryptedBlock(itemID, content, rnd)
            IN  /\ data' = w.data
                /\ cachedNames' = w.cached
                /\ lastOp' = Done("Put", itemID, w.err, <<>>, w.touched)
                /\ NoteWrite(itemID, w, content, FALSE, <<>>)
    /\ UNCHANGED <<alg, faulty, mg, rm, objVars>>

GetMetadata(itemID) ==
    /\ LET g == getMetadata(itemID)
       IN  lastOp' = Done("GetMetadata", itemID, g.err, g.out, g.touched)
    /\ UNCHANGED <<alg, data, faulty, cachedNames, written, ext, mg, rm, objVars>>

GetJSON(itemID) ==
    /\ LET j == readEncryptedBlock(itemID)
       IN  IF j.err # Nil
           THEN lastOp' = Done("GetJSON", itemID, j.err, <<>>, TRUE)
           ELSE LET u == Unmarshal(j.out)
                IN  lastOp' = Done("GetJSON", itemID, u.err, u.out, TRUE)
    /\ UNCHANGED <<alg, data, faulty, cachedNames, written, ext, mg, rm, objVars>>

PutJSON(id, content, rnd) ==
    /\ LET j == Marshal(content)
       IN  IF j.err # Nil
           THEN /\ lastOp' = Done("PutJSON", id, j.err, <<>>, FALSE)
                /\ UNCHANGED <<data, cachedNames, written, ext>>
           ELSE LET w == writeEncryptedBlock(id, j.out, rnd)
                IN  /\ data' = w.data
                    /\ cachedNames' = w.cached
                    /\ lastOp' = Done("PutJSON", id, w.err, <<>>, w.touched)
                    /\ NoteWrite(id, w, j.out, TRUE, content.elems)
    /\ UNCHANGED <<alg, faulty, mg, rm, objVars>>

\* the history kept after a removal of itemID by the manager
NoteRemove(itemID, r) ==
    IF r.err = Nil /\ r.touched
    THEN /\ written' = [n \in (DOMAIN written) \ {itemID} |-> written[n]]
         /\ ext' = [ext EXCEPT ![itemID] = "none"]
    ELSE UNCHANGED <<written, ext>>

\* Remove without the check of the name
removeItem_unchecked(itemID) ==
    LET d == cacheDeleteBlock(itemID)
    IN  [err |-> d.err, data |-> d.data, cached |-> d.cached, touched |-> TRUE]

\* Remove as a function of the current storage: its error and what it leaves
removeItem(itemID) ==
    IF checkReservedName(itemID) # Nil
    THEN [err |-> checkReservedName(itemID), data |-> data, cached |-> cachedNames,
          touched |-> FALSE]
    ELSE LET d == cacheDeleteBlock(itemID)
         IN  [err |-> d.err, data |-> d.data, cached |-> d.cached, touched |-> TRUE]

Remove(itemID) ==
    /\ LET r == removeItem(itemID)
       IN  /\ data' = r.data
           /\ cachedNames' = r.cached
           /\ lastOp' = Done("Remove", itemID, r.err, <<>>, r.touched)
           /\ NoteRemove(itemID, r)
    /\ UNCHANGED <<alg, faulty, mg, rm, objVars>>

List(prefix) ==
    /\ lastOp' = Done("List", prefix, Nil, cacheListBlocks(prefix), TRUE)
    /\ UNCHANGED <<alg, data, faulty, cachedNames, written, ext, mg, rm, objVars>>

\* RefreshCache; ok tells whether the backend could be listed
RefreshCache(ok) ==
    /\ LET r == cacheRefresh(ok)
       IN  /\ cachedNames' = r.cached
           /\ lastOp' = Done("RefreshCache", "", r.err, <<>>, TRUE)
           /\ ext' = IF r.err = Nil
                     THEN [n \in Names |->
                            IF ext[n] \in {"created", "deleted"} THEN "none" ELSE ext[n]]
                     ELSE ext
    /\ UNCHANGED <<alg, data, faulty, written, mg, rm, objVars>>

---------------------------------------------------------------------------
(* Goroutine pools.  The workers of a pool run the same code and are told *)
(* apart by nothing, so a pool is the bag of its workers' states.         *)

\* a worker: where it stands, the item it holds, the result it holds
Worker(st, id, err, out) == [st |-> st, id |-> id, err |-> err, out |-> out]

Waiting == Worker("recv", "", Nil, <<>>)

Exited == Worker("exit", "", Nil, <<>>)

One(w) == SetToBag({w})

\* the workers of pool B that stand at st
InState(B, st) ==
    LET S == {w \in DOMAIN B : w.st = st}
    IN  BagCardinality([w \in S |-> B[w]])

\* how many entries of the sequence s have the field id equal to n
RECURSIVE CountID(_, _)
CountID(s, n) ==
    IF s = <<>> THEN 0
    ELSE (IF Head(s).id = n THEN 1 ELSE 0) + CountID(Tail(s), n)

\* how many entries of the sequence s are the name n
RECURSIVE CountName(_, _)
CountName(s, n) ==
    IF s = <<>> THEN 0
    ELSE (IF Head(s) = n THEN 1 ELSE 0) + CountName(Tail(s), n)

NilMap == [isNil |-> TRUE, m |-> [n \in {} |-> <<>>]]

EmptyMap == [isNil |-> FALSE, m |-> [n \in {} |-> <<>>]]

---------------------------------------------------------------------------
(* MultiGet *)

MGIdle ==
    [pc |-> "idle", items |-> <<>>, i |-> 0, workers |-> EmptyBag,
     feeder |-> "none", fed |-> 0, closed |-> FALSE,
     resultErr |-> Nil, resultMap |-> EmptyMap,
     retErr |-> Nil, retMap |-> NilMap, received |-> <<>>]

\* the call is made: ch and inputs exist, no goroutine yet
MGCalled(itemIDs) == [MGIdle EXCEPT !.pc = "spawn", !.items = itemIDs]

\* for i := 0; i < parallelFetches; i++ { go func() {...}() }; go func() {feed}()
MGSpawn_perItem ==
    /\ mg.pc = "spawn"
    /\ IF mg.i < Len(mg.items)
       THEN mg' = [mg EXCEPT !.workers = @ (+) One(Waiting), !.i = @ + 1]
       ELSE mg' = [mg EXCEPT !.pc = "collect", !.i = 0, !.feeder = "feeding"]
    /\ UNCHANGED <<mgrVars, rm, objVars>>

MGSpawn ==
    /\ mg.pc = "spawn"
    /\ IF mg.i < parallelFetches
       THEN mg' = [mg EXCEPT !.workers = @ (+) One(Waiting), !.i = @ + 1]
       ELSE mg' = [mg EXCEPT !.pc = "collect", !.i = 0, !.feeder = "feeding"]
    /\ UNCHANGED <<mgrVars, rm, objVars>>

\* inputs <- i, met by a worker at `for itemID := range inputs`
MGFeed ==
    /\ mg.feeder = "feeding"
    /\ mg.fed < Len(mg.items)
    /\ BagIn(Waiting, mg.workers)
    /\ mg' = [mg EXCEPT
                !.workers = (@ (-) One(Waiting))
                                (+) One(Worker("read", mg.items[mg.fed + 1], Nil, <<>>)),
                !.fed = @ + 1]
    /\ UNCHANGED <<mgrVars, rm, objVars>>

\* the feeder ends without close(inputs)
MGCloseInputs_forgotten ==
    /\ mg.feeder = "feeding"
    /\ mg.fed = Len(mg.items)
    /\ mg' = [mg EXCEPT !.feeder = "done"]
    /\ UNCHANGED <<mgrVars, rm, objVars>>

\* close(inputs), and the feeder ends
MGCloseInputs ==
    /\ mg.feeder = "feeding"
    /\ mg.fed = Len(mg.items)
    /\ mg' = [mg EXCEPT !.feeder = "done", !.closed = TRUE]
    /\ UNCHANGED <<mgrVars, rm, objVars>>

\* v, err := mm.GetMetadata(itemID)
MGWorkerRead(w) ==
    /\ BagIn(w, mg.workers)
    /\ w.st = "read"
    /\ LET g == getMetadata(w.id)
       IN  mg' = [mg EXCEPT
                    !.workers = (@ (-) One(w)) (+) One(Worker("send", w.id, g.err, g.out))]
    /\ UNCHANGED <<mgrVars, rm, objVars>>

\* the collecting loop with the error kept being the first one
MGCollect_keepFirst(w) ==
    /\ mg.pc = "collect"
    /\ mg.i < Len(mg.items)
    /\ BagIn(w, mg.workers)
    /\ w.st = "send"
    /\ mg' = [mg EXCEPT
                !.workers = (@ (-) One(w)) (+) One(Waiting),
                !.i = @ + 1,
                !.resultErr = IF w.err # Nil /\ @ = Nil THEN w.err ELSE @,
                !.resultMap = IF w.err # Nil THEN @
                              ELSE [isNil |-> FALSE,
                                    m |-> [n \in (DOMAIN @.m) \cup {w.id} |->
                                            IF n = w.id THEN w.out ELSE @.m[n]]],
                !.received = Append(@, [id |-> w.id, err |-> w.err])]
    /\ UNCHANGED <<mgrVars, rm, objVars>>

\* ch <- singleReadResult{...} in a worker, met by r := <-ch in the caller
MGCollect(w) ==
    /\ mg.pc = "collect"
    /\ mg.i < Len(mg.items)
    /\ BagIn(w, mg.workers)
    /\ w.st = "send"
    /\ mg' = [mg EXCEPT
                !.workers = (@ (-) One(w)) (+) One(Waiting),
                !.i = @ + 1,
                !.resultErr = IF w.err # Nil THEN w.err ELSE @,
                !.resultMap = IF w.err # Nil THEN @
                              ELSE [isNil |-> FALSE,
                                    m |-> [n \in (DOMAIN @.m) \cup {w.id} |->
                                            IF n = w.id THEN w.out ELSE @.m[n]]],
                !.received = Append(@, [id |-> w.id, err |-> w.err])]
    /\ UNCHANGED <<mgrVars, rm, objVars>>

\* a worker's range loop ends on the closed channel
MGWorkerExit ==
    /\ mg.closed
    /\ BagIn(Waiting, mg.workers)
    /\ mg' = [mg EXCEPT !.workers = (@ (-) One(Waiting)) (+) One(Exited)]
    /\ UNCHANGED <<mgrVars, rm, objVars>>

\* MultiGet returning as soon as a result carries an error
MGReturn_early ==
    /\ mg.pc = "collect"
    /\ mg.i = Len(mg.items) \/ mg.resultErr # Nil
    /\ mg' = [mg EXCEPT
                !.pc = "done",
                !.retErr = mg.resultErr,
                !.retMap = IF mg.resultErr # Nil THEN NilMap ELSE mg.resultMap]
    /\ UNCHANGED <<mgrVars, rm, objVars>>

\* MultiGet returning the map it has assembled beside the error
MGReturn_mapBesideError ==
    /\ mg.pc = "collect"
    /\ mg.i = Len(mg.items)
    /\ mg' = [mg EXCEPT
                !.pc = "done",
                !.retErr = mg.resultErr,
                !.retMap = mg.resultMap]
    /\ UNCHANGED <<mgrVars, rm, objVars>>

\* if resultErr != nil { return nil, resultErr }; return resultMap, nil
MGReturn ==
    /\ mg.pc = "collect"
    /\ mg.i = Len(mg.items)
    /\ mg' = [mg EXCEPT
                !.pc = "done",
                !.retErr = mg.resultErr,
                !.retMap = IF mg.resultErr # Nil THEN NilMap ELSE mg.resultMap]
    /\ UNCHANGED <<mgrVars, rm, objVars>>

\* ListContents: itemIDs, err := mm.List(prefix); return mm.MultiGet(itemIDs)
ListContents(prefix) ==
    /\ mg.pc \in {"idle", "done"}
    /\ mg' = MGCalled(cacheListBlocks(prefix))
    /\ lastOp' = Done("ListContents", prefix, Nil, cacheListBlocks(prefix), TRUE)
    /\ UNCHANGED <<alg, data, faulty, cachedNames, written, ext, rm, objVars>>

---------------------------------------------------------------------------
(* RemoveMany *)

parallelism == 30

RMIdle ==
    [pc |-> "idle", items |-> <<>>, i |-> 0, workers |-> EmptyBag,
     fed |-> 0, closed |-> FALSE, wg |-> 0,
     errch |-> <<>>, errClosed |-> FALSE, ret |-> Nil, attempts |-> EmptyBag]

\* the call is made: ch, wg and errch (with len(itemIDs) slots) exist
RMCalled(itemIDs) == [RMIdle EXCEPT !.pc = "spawn", !.items = itemIDs]

\* for i := 0; i < parallelism; i++ { wg.Add(1); go func() {...}() }
RMSpawn ==
    /\ rm.pc = "spawn"
    /\ IF rm.i < parallelism
       THEN rm' = [rm EXCEPT !.workers = @ (+) One(Waiting), !.i = @ + 1, !.wg = @ + 1]
       ELSE rm' = [rm EXCEPT !.pc = "feed"]
    /\ UNCHANGED <<mgrVars, mg, objVars>>

\* ch <- id, met by a worker at `for id := range ch`
RMFeed ==
    /\ rm.pc = "feed"
    /\ rm.fed < Len(rm.items)
    /\ BagIn(Waiting, rm.workers)
    /\ rm' = [rm EXCEPT
                !.workers = (@ (-) One(Waiting))
                                (+) One(Worker("read", rm.items[rm.fed + 1], Nil, <<>>)),
                !.fed = @ + 1]
    /\ UNCHANGED <<mgrVars, mg, objVars>>

\* close(ch); the caller goes on to wg.Wait()
RMClose ==
    /\ rm.pc = "feed"
    /\ rm.fed = Len(rm.items)
    /\ rm' = [rm EXCEPT !.pc = "wait", !.closed = TRUE]
    /\ UNCHANGED <<mgrVars, mg, objVars>>

\* err := mm.Remove(id) in a worker
RMWorkerRemove(w) ==
    /\ BagIn(w, rm.workers)
    /\ w.st = "read"
    /\ LET r == removeItem(w.id)
       IN  /\ data' = r.data
           /\ cachedNames' = r.cached
           /\ NoteRemove(w.id, r)
           /\ rm' = [rm EXCEPT
                        !.workers = (@ (-) One(w))
                            (+) One(IF r.err # Nil THEN Worker("senderr", w.id, r.err, <<>>)
                                    ELSE Waiting),
                        !.attempts = @ (+) One([id |-> w.id, err |-> r.err])]
    /\ UNCHANGED <<alg, faulty, lastOp, mg, objVars>>

\* errch <- err on a channel made without a buffer: it waits for a receiver,
\* and RemoveMany receives only after wg.Wait()
RMWorkerSendErr_unbuffered(w) ==
    /\ BagIn(w, rm.workers)
    /\ w.st = "senderr"
    /\ Len(rm.errch) < 0
    /\ rm' = [rm EXCEPT
                !.workers = (@ (-) One(w)) (+) One(Waiting),
                !.errch = Append(@, w.err)]
    /\ UNCHANGED <<mgrVars, mg, objVars>>

\* errch <- err: it waits while the buffer of len(itemIDs) slots is full
RMWorkerSendErr(w) ==
    /\ BagIn(w, rm.workers)
    /\ w.st = "senderr"
    /\ Len(rm.errch) < Len(rm.items)
    /\ rm' = [rm EXCEPT
                !.workers = (@ (-) One(w)) (+) One(Waiting),
                !.errch = Append(@, w.err)]
    /\ UNCHANGED <<mgrVars, mg, objVars>>

\* a worker's range loop ends on the closed channel; the deferred wg.Done()
RMWorkerExit ==
    /\ rm.closed
    /\ BagIn(Waiting, rm.workers)
    /\ rm' = [rm EXCEPT !.workers = (@ (-) One(Waiting)) (+) One(Exited), !.wg = @ - 1]
    /\ UNCHANGED <<mgrVars, mg, objVars>>

\* RemoveMany without wg.Wait()
RMReturn_noWait ==
    /\ rm.pc = "wait"
    /\ rm' = [rm EXCEPT
                !.pc = "done",
                !.errClosed = TRUE,
                !.ret = IF rm.errch = <<>> THEN Nil ELSE Head(rm.errch)]
    /\ UNCHANGED <<mgrVars, mg, objVars>>

\* wg.Wait(); close(errch); return <-errch
RMReturn ==
    /\ rm.pc = "wait"
    /\ rm.wg = 0
    /\ rm' = [rm EXCEPT
                !.pc = "done",
                !.errClosed = TRUE,
                !.ret = IF rm.errch = <<>> THEN Nil ELSE Head(rm.errch)]
    /\ UNCHANGED <<mgrVars, mg, objVars>>

\* RemoveMany is called
RemoveMany(itemIDs) ==
    /\ rm.pc \in {"idle", "done"}
    /\ rm' = RMCalled(itemIDs)
    /\ lastOp' = Done("RemoveMany", "", Nil, itemIDs, TRUE)
    /\ UNCHANGED <<alg, data, faulty, cachedNames, written, ext, mg, objVars>>

---------------------------------------------------------------------------
(* Block manager: content-addressed blocks over the storage backend, with  *)
(* packing, pack indexes, Flush, reopening and index compaction.          *)

\* the content-address of a payload: a digest computed over its units
RECURSIVE HashTo(_, _)
HashTo(b, n) ==
    IF n = 0 THEN 7 ELSE (HashTo(b, n - 1) * HashMul + b[n] + 1) % HashMod

ContentAddress(b) == HashTo(b, Len(b))

\* storage keys: a data block is keyed by its content-address, a pack file
\* and a pack index block by a fresh suffix
DataKey(addr) == [kind |-> "D", id |-> addr]

PackKey(n) == [kind |-> "K", id |-> n]

IndexKey(n) == [kind |-> "P", id |-> n]

NoItems == [a \in {} |-> [pack |-> 0, off |-> 0, len |-> 0]]

\* a stored data block or pack file
PayloadBlock(payload) == [payload |-> payload, time |-> 0, items |-> NoItems]

\* a stored pack index block: creation time and, for each content-address,
\* the pack file (0: stored under its own address), offset and length
IndexBlock(time, items) == [payload |-> <<>>, time |-> time, items |-> items]

\* f with the value v under the key k
Upd(f, k, v) == [x \in (DOMAIN f) \cup {k} |-> IF x = k THEN v ELSE f[x]]

\* f and g together, g winning
Merge(f, g) == [x \in (DOMAIN f) \cup (DOMAIN g) |-> IF x \in DOMAIN g THEN g[x] ELSE f[x]]

EmptyGroup == [buf |-> <<>>, items |-> NoItems]

\* the block manager of a repository just opened on a storage without
\* pack indexes
NewBlockManager(maxPacked) ==
    [open |-> TRUE, maxPacked |-> maxPacked, index |-> NoItems, group |-> EmptyGroup,
     pending |-> NoItems, clock |-> 1, nextKey |-> 1]

\* the content-address is known live: indexed, or waiting in a group
KnownLive(s, addr) ==
    \/ addr \in DOMAIN s.bm.index
    \/ addr \in DOMAIN s.bm.group.items
    \/ addr \in DOMAIN s.bm.pending

\* the current pack group is sealed: pack file written, then its index block
SealGroup(s) ==
    IF DOMAIN s.bm.group.items = {} THEN s
    ELSE LET k == s.bm.nextKey
             items == [a \in DOMAIN s.bm.group.items |->
                        [pack |-> k, off |-> s.bm.group.items[a].off,
                         len |-> s.bm.group.items[a].len]]
         IN  [blocks |-> Upd(Upd(s.blocks, PackKey(k), PayloadBlock(s.bm.group.buf)),
                             IndexKey(k), IndexBlock(s.bm.clock, items)),
              bm |-> [s.bm EXCEPT !.index = Merge(@, items), !.group = EmptyGroup,
                                  !.nextKey = k + 1]]

\* the blocks stored under their own address since the last index block are
\* listed in a new index block
SealPending(s) ==
    IF DOMAIN s.bm.pending = {} THEN s
    ELSE LET k == s.bm.nextKey
         IN  [blocks |-> Upd(s.blocks, IndexKey(k), IndexBlock(s.bm.clock, s.bm.pending)),
              bm |-> [s.bm EXCEPT !.index = Merge(@, s.bm.pending), !.pending = NoItems,
                                  !.nextKey = k + 1]]

\* WriteBlock that never consults the index
WriteBlock_noDedup(s, payload) ==
    LET addr == ContentAddress(payload)
    IN  IF s.bm.maxPacked >= 0 /\ Len(payload) <= s.bm.maxPacked
        THEN LET t == IF Len(s.bm.group.buf) + Len(payload) > PackSizeTarget
                      THEN SealGroup(s) ELSE s
                 g == t.bm.group
             IN  [t EXCEPT !.bm.group =
                    [buf |-> g.buf \o payload,
                     items |-> Upd(g.items, addr,
                                   [pack |-> 0, off |-> Len(g.buf), len |-> Len(payload)])]]
        ELSE [blocks |-> Upd(s.blocks, DataKey(addr), PayloadBlock(payload)),
              bm |-> [s.bm EXCEPT !.pending =
                        Upd(@, addr, [pack |-> 0, off |-> 0, len |-> Len(payload)])]]

\* WriteBlock("", payload): the state it leaves; the id is ContentAddress
WriteBlock(s, payload) ==
    LET addr == ContentAddress(payload)
    IN  IF KnownLive(s, addr) THEN s
        ELSE IF s.bm.maxPacked >= 0 /\ Len(payload) <= s.bm.maxPacked
        THEN LET t == IF Len(s.bm.group.buf) + Len(payload) > PackSizeTarget
                      THEN SealGroup(s) ELSE s
                 g == t.bm.group
             IN  [t EXCEPT !.bm.group =
                    [buf |-> g.buf \o payload,
                     items |-> Upd(g.items, addr,
                                   [pack |-> 0, off |-> Len(g.buf), len |-> Len(payload)])]]
        ELSE [blocks |-> Upd(s.blocks, DataKey(addr), PayloadBlock(payload)),
              bm |-> [s.bm EXCEPT !.pending =
                        Upd(@, addr, [pack |-> 0, off |-> 0, len |-> Len(payload)])]]

\* Flush that seals the pack group and leaves the other blocks unlisted
FlushBlocks_groupOnly(s) ==
    LET t == SealGroup(s)
    IN  [t EXCEPT !.bm.clock = @ + 1]

\* Flush: every outstanding group is sealed
FlushBlocks(s) ==
    LET t == SealPending(SealGroup(s))
    IN  [t EXCEPT !.bm.clock = @ + 1]

\* the stored bytes of a content-address, before they are verified
FetchBlock(s, addr) ==
    IF addr \in DOMAIN s.bm.group.items
    THEN LET e == s.bm.group.items[addr]
         IN  [err |-> Nil, out |-> SubSeq(s.bm.group.buf, e.off + 1, e.off + e.len)]
    ELSE IF addr \in DOMAIN s.bm.index /\ s.bm.index[addr].pack # 0
    THEN LET e == s.bm.index[addr]
         IN  IF PackKey(e.pack) \notin DOMAIN s.blocks
             THEN [err |-> ErrBlockNotFound, out |-> <<>>]
             ELSE [err |-> Nil,
                   out |-> SubSeq(s.blocks[PackKey(e.pack)].payload, e.off + 1, e.off + e.len)]
    ELSE IF DataKey(addr) \notin DOMAIN s.blocks
    THEN [err |-> ErrBlockNotFound, out |-> <<>>]
    ELSE [err |-> Nil, out |-> s.blocks[DataKey(addr)].payload]

\* GetBlock: the payload, verified against its content-address
GetBlock(s, addr) ==
    LET f == FetchBlock(s, addr)
    IN  IF f.err # Nil THEN f
        ELSE IF ContentAddress(f.out) # addr THEN [err |-> ErrMalformed, out |-> <<>>]
        ELSE f

\* the pack index blocks of the storage
IndexKeys(b) == {k \in DOMAIN b : k.kind = "P"}

\* the entry of addr that wins among the index blocks ks: the newest, and
\* among equally dated ones that of the greatest key
Newest(b, ks, addr) ==
    LET holders == {k \in ks : addr \in DOMAIN b[k].items}
        best == CHOOSE k \in holders :
                    \A j \in holders :
                        \/ b[j].time < b[k].time
                        \/ (b[j].time = b[k].time /\ j.id <= k.id)
    IN  b[best].items[addr]

\* the index blocks ks merged into one map
MergedIndex(b, ks) ==
    [a \in UNION {DOMAIN b[k].items : k \in ks} |-> Newest(b, ks, a)]

\* the keys and times in use, so that a new instance never reuses one
MaxOf(S) == IF S = {} THEN 0 ELSE CHOOSE x \in S : \A y \in S : y <= x

\* the repository is opened on a storage: the index is loaded from all
\* pack index blocks
OpenBlockManager(b, maxPacked) ==
    [NewBlockManager(maxPacked) EXCEPT
        !.index = MergedIndex(b, IndexKeys(b)),
        !.clock = MaxOf({b[k].time : k \in IndexKeys(b)}) + 1,
        !.nextKey = MaxOf({k.id : k \in {j \in DOMAIN b : j.kind \in {"K", "P"}}}) + 1]

\* CompactIndexes keeping the entries of one compactable index block only
CompactIndexes_oneSource(s, cutoff) ==
    LET old == {k \in IndexKeys(s.blocks) : s.blocks[k].time < cutoff}
        k == s.bm.nextKey
        merged == Upd(s.blocks, IndexKey(k),
                      IndexBlock(s.bm.clock,
                                 MergedIndex(s.blocks, {CHOOSE j \in old : TRUE})))
    IN  IF old = {} THEN s
        ELSE [blocks |-> [x \in (DOMAIN merged) \ old |-> merged[x]],
              bm |-> [s.bm EXCEPT !.nextKey = k + 1, !.clock = @ + 1]]

\* CompactIndexes(cutoff): the index blocks created before cutoff are merged
\* into one new index block, then deleted
CompactIndexes(s, cutoff) ==
    LET old == {k \in IndexKeys(s.blocks) : s.blocks[k].time < cutoff}
        k == s.bm.nextKey
        merged == Upd(s.blocks, IndexKey(k),
                      IndexBlock(s.bm.clock, MergedIndex(s.blocks, old)))
    IN  IF old = {} THEN s
        ELSE [blocks |-> [x \in (DOMAIN merged) \ old |-> merged[x]],
              bm |-> [s.bm EXCEPT !.nextKey = k + 1, !.clock = @ + 1]]

---------------------------------------------------------------------------
(* Object layer: the writer splits a byte stream into chunks of at most   *)
(* MaxBlockSize, the reader gives random access to the stream again.      *)

\* an ObjectID: ind = 0 is Direct(addr), ind = n + 1 is Indirect of the
\* ObjectID with ind = n
ObjectID(ind, addr) == [ind |-> ind, addr |-> addr]

\* the entry list of an indirect object as the content of the inner
\* object: start, length and child address of each entry in turn
RECURSIVE SerializeEntries(_)
SerializeEntries(es) ==
    IF es = <<>> THEN <<>>
    ELSE <<Head(es).start, Head(es).length, Head(es).addr>> \o SerializeEntries(Tail(es))

\* the inverse, read from the bytes of the inner object
ParseEntries(u) ==
    IF Len(u) % 3 # 0 THEN [err |-> ErrMalformed, out |-> <<>>]
    ELSE [err |-> Nil,
          out |-> [k \in 1..(Len(u) \div 3) |->
                    [start |-> u[3 * k - 2], length |-> u[3 * k - 1], addr |-> u[3 * k]]]]

\* entries are in order and contiguous from 0
Contiguous(es) ==
    \A k \in 1..Len(es) :
        es[k].start = (IF k = 1 THEN 0 ELSE es[k - 1].start + es[k - 1].length)

NewWriterState == [state |-> "open", buf |-> <<>>, entries |-> <<>>, pos |-> 0]

\* the first n units of the writer's buffer leave as one chunk
EmitChunk(c, n) ==
    LET chunk == SubSeq(c.w.buf, 1, n)
    IN  [s |-> WriteBlock(c.s, chunk),
         w |-> [c.w EXCEPT
                  !.buf = SubSeq(@, n + 1, Len(@)),
                  !.entries = Append(@, [start |-> c.w.pos, length |-> n,
                                         addr |-> ContentAddress(chunk)]),
                  !.pos = @ + n]]

\* the writer emitting what it holds at the end of every Write call
RECURSIVE Drain_perCall(_)
Drain_perCall(c) ==
    IF Len(c.w.buf) >= MaxBlockSize THEN Drain_perCall(EmitChunk(c, MaxBlockSize))
    ELSE IF c.w.buf # <<>> THEN EmitChunk(c, Len(c.w.buf))
    ELSE c

\* the FIXED splitter: a chunk leaves whenever the buffer holds MaxBlockSize
RECURSIVE Drain(_)
Drain(c) ==
    IF Len(c.w.buf) >= MaxBlockSize THEN Drain(EmitChunk(c, MaxBlockSize)) ELSE c

\* Write(bytes)
WriterWrite(c, bytes) == Drain([c EXCEPT !.w.buf = @ \o bytes])

\* Result(): the trailing bytes form the last chunk; one entry gives a
\* direct id, more give the id of the entry list written as an object
RECURSIVE WriterResult(_)
WriterResult(c) ==
    LET d == IF c.w.buf # <<>> \/ c.w.entries = <<>> THEN EmitChunk(c, Len(c.w.buf)) ELSE c
    IN  IF Len(d.w.entries) = 1
        THEN [s |-> d.s, id |-> ObjectID(0, d.w.entries[1].addr)]
        ELSE LET inner == WriterResult(WriterWrite([s |-> d.s, w |-> NewWriterState],
                                                   SerializeEntries(d.w.entries)))
             IN  [s |-> inner.s, id |-> ObjectID(inner.id.ind + 1, inner.id.addr)]

\* a whole object written with one Write call
WriteObject(s, content) ==
    WriterResult(WriterWrite([s |-> s, w |-> NewWriterState], content))

\* the checked entry list of an indirect object, read from the bytes of its
\* inner object
EntriesOf(inner) ==
    IF inner.err # Nil THEN inner
    ELSE LET p == ParseEntries(inner.out)
         IN  IF p.err # Nil THEN p
             ELSE IF ~Contiguous(p.out) THEN [err |-> ErrMalformed, out |-> <<>>]
             ELSE p

\* the length of the stream the entries describe
SizeOf(es) == IF es = <<>> THEN 0 ELSE es[Len(es)].start + es[Len(es)].length

\* the entry covering the offset p
Cover(es, p) == CHOOSE k \in 1..Len(es) : es[k].start <= p /\ p < es[k].start + es[k].length

\* Seek(o); Read(n) stopping at the end of the child block that covers o
ReadEntries_oneChild(s, es, o, n) ==
    LET k == Cover(es, o)
        child == GetBlock(s, es[k].addr)
        m == IF o + n > es[k].start + es[k].length THEN es[k].start + es[k].length - o ELSE n
    IN  IF o + n > SizeOf(es) \/ n = 0 THEN [err |-> ErrSeek, out |-> <<>>]
        ELSE IF child.err # Nil THEN child
        ELSE [err |-> Nil, out |-> SubSeq(child.out, o - es[k].start + 1, o - es[k].start + m)]

\* Seek(o); Read(n) on the stream the entries es describe: each byte is
\* found in the child block of the entry covering it
ReadEntries(s, es, o, n) ==
    LET used == IF o + n > SizeOf(es) THEN {} ELSE {Cover(es, p) : p \in o..(o + n - 1)}
        child == [k \in used |-> GetBlock(s, es[k].addr)]
        bad == {k \in used : child[k].err # Nil \/ Len(child[k].out) # es[k].length}
        first == CHOOSE j \in bad : \A i \in bad : j <= i
    IN  IF o + n > SizeOf(es) THEN [err |-> ErrSeek, out |-> <<>>]
        ELSE IF bad # {}
        THEN [err |-> IF child[first].err # Nil THEN child[first].err ELSE ErrMalformed,
              out |-> <<>>]
        ELSE [err |-> Nil,
              out |-> [i \in 1..n |->
                        LET k == Cover(es, o + i - 1)
                        IN  child[k].out[o + i - es[k].start]]]

\* the whole content of an object
RECURSIVE ReadAll(_, _)
ReadAll(s, id) ==
    IF id.ind = 0 THEN GetBlock(s, id.addr)
    ELSE LET es == EntriesOf(ReadAll(s, ObjectID(id.ind - 1, id.addr)))
         IN  IF es.err # Nil THEN es ELSE ReadEntries(s, es.out, 0, SizeOf(es.out))

\* Open(id); Seek(o); Read(n)
ReadAt(s, id, o, n) ==
    IF id.ind = 0
    THEN LET b == GetBlock(s, id.addr)
         IN  IF b.err # Nil THEN b
             ELSE IF o + n > Len(b.out) THEN [err |-> ErrSeek, out |-> <<>>]
             ELSE [err |-> Nil, out |-> SubSeq(b.out, o + 1, o + n)]
    ELSE LET es == EntriesOf(ReadAll(s, ObjectID(id.ind - 1, id.addr)))
         IN  IF es.err # Nil THEN es ELSE ReadEntries(s, es.out, o, n)

---------------------------------------------------------------------------
(* Repository: the calls on Objects and Blocks, each one step *)

\* the byte streams the objects are cut from: zeros, and an aperiodic one
Streams ==
    <<[j \in 1..MaxStreamLen |-> 0],
      [j \in 1..MaxStreamLen |->
            IF j \in {1, 3, 4, 7, 9, 10, 11, 15, 17, 20, 21, 22, 23} THEN 1 ELSE 0]>>

\* the longest object: much larger than a block
MaxObjectLen == 2 * MaxBlockSize + 1

NoBlocks == [k \in {} |-> PayloadBlock(<<>>)]

\* the object sizes written: 1, MaxBlockSize - 1, MaxBlockSize,
\* MaxBlockSize + 1 and much larger
ObjectSizes == {1, MaxBlockSize - 1, MaxBlockSize, MaxBlockSize + 1, MaxObjectLen}

\* no writer; stream and size say which bytes the caller is writing, all
\* what it has written, calls in how many Write calls (2: two or more)
NoWriter == [state |-> "none", buf |-> <<>>, entries |-> <<>>, pos |-> 0,
             stream |-> 1, size |-> 0, all |-> <<>>, calls |-> 0,
             result |-> ObjectID(0, 0)]

ObjDone(op, id, o, n, err, out) ==
    [op |-> op, id |-> id, o |-> o, n |-> n, err |-> err, out |-> out]

NoCall == ObjDone("connect", ObjectID(0, 0), 0, 0, Nil, <<>>)

\* the contents of TestPackingSimple: two of them short, one larger than a
\* block
PackedContents ==
    <<SubSeq(Streams[2], 1, 3), SubSeq(Streams[1], 1, 2),
      SubSeq(Streams[2], 1, MaxBlockSize + 1)>>

\* the calls of TestPackingSimple that change the repository, up to the
\* count of the storage keys: a content written (its number) or Flush (0)
PackingCalls == <<1, 1, 2, 2, 0, 3, 3, 2, 1, 0>>

\* hist.step: how many of PackingCalls the calls made so far are, or -1
\* when they are another sequence; hist.life: "compacted" when the last
\* call that changed the repository was a CompactIndexes that replaced
\* every index block, "reopened" when the repository was reopened since
NoHist == [step |-> 0, life |-> "written"]

StepAfter(call) ==
    IF hist.step >= 0 /\ hist.step < Len(PackingCalls) /\ PackingCalls[hist.step + 1] = call
    THEN hist.step + 1 ELSE -1

LifeAfter(event) ==
    CASE event = "compacted" -> "compacted"
      [] event = "reopen" -> IF hist.life = "written" THEN "written" ELSE "reopened"
      [] OTHER -> "written"

\* a repository initialized and connected, nothing written
InitRepository(maxPacked) ==
    /\ blocks = NoBlocks
    /\ bm = NewBlockManager(maxPacked)
    /\ writer = NoWriter
    /\ objects = {}
    /\ lastObj = NoCall
    /\ hist = NoHist

\* repo.Objects.NewWriter(object.WriterOptions{}), by a caller that is to
\* write the first size bytes of stream k
NewWriter(k, size) ==
    /\ bm.open
    /\ writer.state # "open"
    /\ writer' = [NoWriter EXCEPT !.state = "open", !.stream = k, !.size = size]
    /\ lastObj' = ObjDone("NewWriter", ObjectID(0, 0), 0, 0, Nil, <<>>)
    /\ UNCHANGED <<mgrVars, mg, rm, blocks, bm, objects, hist>>

\* writer.Write of the next n bytes of the stream
Write(n) ==
    /\ writer.state = "open"
    /\ Len(writer.all) + n <= writer.size
    /\ LET bytes == SubSeq(Streams[writer.stream], Len(writer.all) + 1, Len(writer.all) + n)
           c == WriterWrite([s |-> [blocks |-> blocks, bm |-> bm],
                             w |-> [state |-> "open", buf |-> writer.buf,
                                    entries |-> writer.entries, pos |-> writer.pos]],
                            bytes)
       IN  /\ blocks' = c.s.blocks
           /\ bm' = c.s.bm
           /\ writer' = [writer EXCEPT !.buf = c.w.buf, !.entries = c.w.entries,
                                       !.pos = c.w.pos, !.all = @ \o bytes,
                                       !.calls = IF @ = 0 THEN 1 ELSE 2]
           /\ lastObj' = ObjDone("Write", ObjectID(0, 0), 0, n, Nil, <<>>)
    /\ UNCHANGED <<mgrVars, mg, rm, objects, hist>>

\* writer.Result()
Result ==
    /\ writer.state = "open"
    /\ Len(writer.all) = writer.size
    /\ LET r == WriterResult([s |-> [blocks |-> blocks, bm |-> bm],
                              w |-> [state |-> "open", buf |-> writer.buf,
                                     entries |-> writer.entries, pos |-> writer.pos]])
       IN  /\ blocks' = r.s.blocks
           /\ bm' = r.s.bm
           /\ writer' = [writer EXCEPT !.state = "done", !.buf = <<>>, !.result = r.id]
           /\ objects' = objects \cup
                            {[id |-> r.id, content |-> writer.all, flushed |-> FALSE]}
           /\ lastObj' = ObjDone("Result", r.id, 0, 0, Nil, <<>>)
    /\ hist' = [step |-> -1, life |-> LifeAfter("written")]
    /\ UNCHANGED <<mgrVars, mg, rm>>

\* repo.Objects.Open(id), reader.Seek(o, 0), reader.Read(n bytes)
ReadSeek(id, o, n) ==
    /\ bm.open
    /\ writer.state # "open"
    /\ LET r == ReadAt([blocks |-> blocks, bm |-> bm], id, o, n)
       IN  lastObj' = ObjDone("Read", id, o, n, r.err, r.out)
    /\ UNCHANGED <<mgrVars, mg, rm, blocks, bm, writer, objects, hist>>

\* repo.Objects.Flush()
Flush ==
    /\ bm.open
    /\ bm.clock < MaxClock
    /\ LET t == FlushBlocks([blocks |-> blocks, bm |-> bm])
       IN  /\ blocks' = t.blocks
           /\ bm' = t.bm
    /\ objects' = {[x EXCEPT !.flushed = TRUE] : x \in objects}
    /\ lastObj' = ObjDone("Flush", ObjectID(0, 0), 0, 0, Nil, <<>>)
    /\ hist' = [step |-> StepAfter(0), life |-> LifeAfter("written")]
    /\ UNCHANGED <<mgrVars, mg, rm, writer>>

\* writeObject(t, repo, content i): NewWriter, one Write, Result
PutObject(i) ==
    /\ bm.open
    /\ writer.state # "open"
    /\ LET r == WriteObject([blocks |-> blocks, bm |-> bm], PackedContents[i])
       IN  /\ blocks' = r.s.blocks
           /\ bm' = r.s.bm
           /\ writer' = NoWriter
           /\ objects' =
                IF [id |-> r.id, content |-> PackedContents[i], flushed |-> TRUE] \in objects
                THEN objects
                ELSE objects \cup
                        {[id |-> r.id, content |-> PackedContents[i], flushed |-> FALSE]}
           /\ lastObj' = ObjDone("Result", r.id, 0, 0, Nil, <<>>)
    /\ hist' = [step |-> StepAfter(i), life |-> LifeAfter("written")]
    /\ UNCHANGED <<mgrVars, mg, rm>>

\* repo.Close() and setupTestWithData on the same data map: the state in
\* memory is gone, the index is loaded from the pack index blocks; of the
\* objects written, those flushed before are followed further
Reopen ==
    /\ bm' = OpenBlockManager(blocks, bm.maxPacked)
    /\ writer' = NoWriter
    /\ objects' = {x \in objects : x.flushed}
    /\ lastObj' = ObjDone("Open", ObjectID(0, 0), 0, 0, Nil, <<>>)
    /\ hist' = [step |-> -1, life |-> LifeAfter("reopen")]
    /\ UNCHANGED <<mgrVars, mg, rm, blocks>>

\* repo.Blocks.CompactIndexes(cutoff, nil)
Compact(cutoff) ==
    /\ bm.open
    /\ bm.clock < MaxClock
    /\ LET t == CompactIndexes([blocks |-> blocks, bm |-> bm], cutoff)
       IN  /\ blocks' = t.blocks
           /\ bm' = t.bm
           /\ hist' = [step |-> -1,
                       life |-> IF t.blocks = blocks THEN hist.life
                                ELSE IF IndexKeys(t.blocks) \cap IndexKeys(blocks) = {}
                                THEN LifeAfter("compacted") ELSE LifeAfter("written")]
    /\ lastObj' = ObjDone("CompactIndexes", ObjectID(0, 0), 0, 0, Nil, <<>>)
    /\ UNCHANGED <<mgrVars, mg, rm, writer, objects>>

---------------------------------------------------------------------------
(* NewManager *)

\* initCrypto accepts exactly these algorithms
SupportedEncryptionAlgorithms == {"AES256_GCM", "NONE"}

\* the blocks "format" and "repo" written when the repository was initialized
FormatBlock == <<123, 125>>

EmptyStore == [n \in {} |-> <<>>]

InitManager ==
    /\ alg \in SupportedEncryptionAlgorithms
    /\ data = [n \in {"format", "repo"} |-> FormatBlock]
    /\ faulty \in {{}, {"a"}}
    /\ cachedNames = DOMAIN data
    /\ lastOp = Done("NewManager", "", Nil, <<>>, TRUE)
    /\ written = EmptyStore
    /\ ext = [n \in Names |-> "none"]
    /\ mg = MGIdle
    /\ rm = RMIdle
    /\ InitRepository(-1)

---------------------------------------------------------------------------
(* Another writer of the same storage: it changes one stored blob at a    *)
(* time, behind the manager's back.                                       *)

FlipBits == {0, 7}

\* b with bit k flipped
Pow2(k) == IF k = 0 THEN 1 ELSE 128

FlipBit(b, k) == IF (b \div Pow2(k)) % 2 = 1 THEN b - Pow2(k) ELSE b + Pow2(k)

Untampered == \A n \in Names : ext[n] = "none"

\* one bit of the blob the manager stored under itemID is flipped
TamperFlip(itemID, pos, bit) ==
    /\ Untampered
    /\ itemID \in DOMAIN written
    /\ itemID \in DOMAIN data
    /\ data[itemID] = written[itemID].blob
    /\ pos \in 1..Len(data[itemID])
    /\ data' = [data EXCEPT ![itemID][pos] = FlipBit(@, bit)]
    /\ ext' = [ext EXCEPT ![itemID] = "flip"]
    /\ lastOp' = Done("external", itemID, Nil, <<>>, FALSE)
    /\ UNCHANGED <<alg, faulty, cachedNames, written, mg, rm, objVars>>

\* the blob stored under itemID is replaced by the blob stored under from
TamperCopy(itemID, from) ==
    /\ Untampered
    /\ itemID # from
    /\ itemID \in DOMAIN written
    /\ from \in DOMAIN written
    /\ itemID \in DOMAIN data
    /\ from \in DOMAIN data
    /\ data[itemID] = written[itemID].blob
    /\ data[from] # data[itemID]
    /\ data' = [data EXCEPT ![itemID] = data[from]]
    /\ ext' = [ext EXCEPT ![itemID] = "copy"]
    /\ lastOp' = Done("external", itemID, Nil, <<>>, FALSE)
    /\ UNCHANGED <<alg, faulty, cachedNames, written, mg, rm, objVars>>

\* the lengths a stored blob is cut to: empty, one byte short of the nonce,
\* the nonce alone, one byte short of nonce and tag
CutLengths == {0, NonceSize - 1, NonceSize, NonceSize + Overhead - 1}

\* the blob the manager stored under itemID is cut to its first n bytes
TamperTruncate(itemID, n) ==
    /\ Untampered
    /\ itemID \in DOMAIN written
    /\ itemID \in DOMAIN data
    /\ data[itemID] = written[itemID].blob
    /\ n < Len(data[itemID])
    /\ data' = [data EXCEPT ![itemID] = SubSeq(@, 1, n)]
    /\ ext' = [ext EXCEPT ![itemID] = "cut"]
    /\ lastOp' = Done("external", itemID, Nil, <<>>, FALSE)
    /\ UNCHANGED <<alg, faulty, cachedNames, written, mg, rm, objVars>>

\* another writer stores a block under a name the backend does not hold
ExtCreate(itemID) ==
    /\ itemID \notin DOMAIN data
    /\ data' = [n \in (DOMAIN data) \cup {itemID} |->
                    IF n = itemID THEN FormatBlock ELSE data[n]]
    /\ ext' = [ext EXCEPT ![itemID] = "created"]
    /\ lastOp' = Done("external", itemID, Nil, <<>>, FALSE)
    /\ UNCHANGED <<alg, faulty, cachedNames, written, mg, rm, objVars>>

\* another writer deletes a block of the backend
ExtDelete(itemID) ==
    /\ itemID \in DOMAIN data
    /\ data' = [n \in (DOMAIN data) \ {itemID} |-> data[n]]
    /\ written' = [n \in (DOMAIN written) \ {itemID} |-> written[n]]
    /\ ext' = [ext EXCEPT ![itemID] = "deleted"]
    /\ lastOp' = Done("external", itemID, Nil, <<>>, FALSE)
    /\ UNCHANGED <<alg, faulty, cachedNames, mg, rm, objVars>>

---------------------------------------------------------------------------
(* Specifications *)

Init == InitManager

\* the manager's calls, one after another
Next ==
    \/ \E id \in ItemIDs, c \in Contents, r \in RandOutcomes : Put(id, c, r)
    \/ \E id \in ItemIDs, v \in JSONValues, r \in RandOutcomes : PutJSON(id, v, r)
    \/ \E id \in ItemIDs : GetMetadata(id)
    \/ \E id \in ItemIDs : GetJSON(id)
    \/ \E id \in ItemIDs : Remove(id)

Spec == Init /\ [][Next]_vars

\* the names the calls are given while another writer changes the storage
SealedIDs == {"a", "b"}

\* Put and GetMetadata while another writer changes stored blobs
NextSealed ==
    \/ \E id \in SealedIDs, c \in Contents, r \in RandOutcomes : Put(id, c, r)
    \/ \E id \in SealedIDs : GetMetadata(id)
    \/ \E id \in SealedIDs : Remove(id)
    \/ \E id \in SealedIDs, pos \in 1..(NonceSize + MaxContentLen + Overhead), bit \in FlipBits :
            TamperFlip(id, pos, bit)
    \/ \E id \in SealedIDs, from \in SealedIDs : TamperCopy(id, from)
    \/ \E id \in SealedIDs, n \in CutLengths : TamperTruncate(id, n)

SpecSealed == Init /\ [][NextSealed]_vars

\* the item lists the bulk calls are given: every short list, and one list
\* longer than the pool
ShortLists == UNION {[1..n -> Names] : n \in 0..MaxShortList}

\* n items, the stored a and the absent b in turn
MixedList(n) == [i \in 1..n |-> IF i % 2 = 1 THEN "a" ELSE "b"]

\* n times the item b
UniformList(n) == [i \in 1..n |-> "b"]

\* a manager whose storage holds the two reserved blocks and the item a,
\* written by Put; the item b is absent
InitStore ==
    /\ alg \in SupportedEncryptionAlgorithms
    /\ faulty \in {{}, {"b"}}
    /\ \E r \in RandOutcomes :
          /\ r.ok
          /\ r.nonce[1] = 0
          /\ LET blob == sealBlock(<<7>>, r).out
             IN  /\ data = [n \in {"format", "repo", "a"} |->
                                IF n = "a" THEN blob ELSE FormatBlock]
                 /\ written = [n \in {"a"} |->
                                [blob |-> blob, content |-> <<7>>, json |-> FALSE,
                                 elems |-> <<>>]]
    /\ cachedNames = DOMAIN data
    /\ lastOp = Done("Put", "a", Nil, <<>>, TRUE)
    /\ ext = [n \in Names |-> "none"]
    /\ InitRepository(-1)

\* one bulk call is made on that manager
InitPools ==
    /\ InitStore
    /\ \/ /\ \E l \in ShortLists \cup {MixedList(parallelFetches + Overflow)} :
                mg = MGCalled(l)
          /\ rm = RMIdle
       \/ /\ \E l \in ShortLists \cup {UniformList(parallelism + Overflow)} :
                rm = RMCalled(l)
          /\ mg = MGIdle

NextPools ==
    \/ MGSpawn
    \/ MGFeed
    \/ MGCloseInputs
    \/ \E w \in DOMAIN mg.workers : MGWorkerRead(w)
    \/ \E w \in DOMAIN mg.workers : MGCollect(w)
    \/ MGWorkerExit
    \/ MGReturn
    \/ RMSpawn
    \/ RMFeed
    \/ RMClose
    \/ \E w \in DOMAIN rm.workers : RMWorkerRemove(w)
    \/ \E w \in DOMAIN rm.workers : RMWorkerSendErr(w)
    \/ RMWorkerExit
    \/ RMReturn

SpecPools == InitPools /\ [][NextPools]_vars

\* every goroutine that can take a step is scheduled eventually
FairPools ==
    /\ WF_vars(MGSpawn)
    /\ WF_vars(MGFeed)
    /\ WF_vars(MGCloseInputs)
    /\ WF_vars(\E w \in DOMAIN mg.workers : MGWorkerRead(w))
    /\ WF_vars(\E w \in DOMAIN mg.workers : MGCollect(w))
    /\ WF_vars(MGWorkerExit)
    /\ WF_vars(MGReturn)
    /\ WF_vars(RMSpawn)
    /\ WF_vars(RMFeed)
    /\ WF_vars(RMClose)
    /\ WF_vars(\E w \in DOMAIN rm.workers : RMWorkerRemove(w))
    /\ WF_vars(\E w \in DOMAIN rm.workers : RMWorkerSendErr(w))
    /\ WF_vars(RMWorkerExit)
    /\ WF_vars(RMReturn)

FairSpecPools == SpecPools /\ FairPools

\* a manager as InitStore leaves it, no bulk call made yet
InitListing ==
    /\ InitStore
    /\ mg = MGIdle
    /\ rm = RMIdle

\* ListContents while another caller of the same manager removes the item a
NextListContents ==
    \/ \E p \in Prefixes : ListContents(p)
    \/ MGSpawn
    \/ MGFeed
    \/ MGCloseInputs
    \/ \E w \in DOMAIN mg.workers : MGWorkerRead(w)
    \/ \E w \in DOMAIN mg.workers : MGCollect(w)
    \/ MGWorkerExit
    \/ MGReturn
    \/ Remove("a")

SpecListContents == InitListing /\ [][NextListContents]_vars

\* no RemoveMany is under way
RMQuiet == rm.pc \in {"idle", "done"}

\* the manager's calls one after another, List and RefreshCache among them,
\* over a backend another writer adds blocks to and deletes blocks from
NextList ==
    \/ /\ RMQuiet
       /\ \E id \in SealedIDs, c \in Contents, r \in RandOutcomes : Put(id, c, r)
    \/ /\ RMQuiet
       /\ \E v \in JSONValues, r \in RandOutcomes : PutJSON("a", v, r)
    \/ /\ RMQuiet
       /\ \E id \in SealedIDs : Remove(id)
    \/ /\ RMQuiet
       /\ \E p \in Prefixes : List(p)
    \/ /\ RMQuiet
       /\ \E ok \in BOOLEAN : RefreshCache(ok)
    \/ /\ RMQuiet
       /\ \E id \in SealedIDs : ExtCreate(id)
    \/ /\ RMQuiet
       /\ \E id \in SealedIDs : ExtDelete(id)
    \/ RemoveMany(<<"a", "b">>)
    \/ RMSpawn
    \/ RMFeed
    \/ RMClose
    \/ \E w \in DOMAIN rm.workers : RMWorkerRemove(w)
    \/ \E w \in DOMAIN rm.workers : RMWorkerSendErr(w)
    \/ RMWorkerExit
    \/ RMReturn

SpecList == Init /\ [][NextList]_vars

\* MaxPackedContentLength: packing off, on for small blocks, on for all
PackedLimits == {-1, MaxBlockSize \div 2, MaxBlockSize}

\* setupTest: a repository initialized on an empty storage and connected,
\* metadata unencrypted
InitObjects ==
    /\ alg = "NONE"
    /\ data = [n \in {"format", "repo"} |-> FormatBlock]
    /\ faulty = {}
    /\ cachedNames = DOMAIN data
    /\ lastOp = Done("NewManager", "", Nil, <<>>, TRUE)
    /\ written = EmptyStore
    /\ ext = [n \in Names |-> "none"]
    /\ mg = MGIdle
    /\ rm = RMIdle
    /\ \E mp \in PackedLimits : InitRepository(mp)

\* the offsets and lengths the reads are made with
ReadLengths(size, o) == {n \in {1, 2, MaxBlockSize, size - o} : n >= 1 /\ o + n <= size}

\* an object written through a writer in pieces, flushed at any time, read
\* at any place (a read leaves the repository as it was, so a read right
\* after a read reaches nothing new)
NextObjects ==
    \/ /\ objects = {}
       /\ \E k \in 1..Len(Streams), size \in ObjectSizes : NewWriter(k, size)
    \/ \E n \in 1..(MaxBlockSize + 1) : Write(n)
    \/ Result
    \/ Flush
    \/ /\ lastObj.op # "Read"
       /\ \E x \in objects : \E o \in 0..(Len(x.content) - 1) :
            \E n \in ReadLengths(Len(x.content), o) : ReadSeek(x.id, o, n)

SpecObjects == InitObjects /\ [][NextObjects]_vars

\* the cutoffs of CompactIndexes: before every index block (the first
\* has the time 1), among them, after all of them
Cutoffs == 1..MaxClock

\* whole objects written, flushed when blocks are outstanding, the
\* repository closed and reopened, its indexes compacted, the objects
\* verified
NextPacking ==
    \/ \E i \in 1..Len(PackedContents) : PutObject(i)
    \/ /\ (DOMAIN bm.group.items) \cup (DOMAIN bm.pending) # {}
       /\ Flush
    \/ /\ lastObj.op # "Open"
       /\ Reopen
    \/ \E cutoff \in Cutoffs : Compact(cutoff)
    \/ /\ lastObj.op # "Read"
       /\ \E x \in objects : ReadSeek(x.id, 0, Len(x.content))

SpecPacking == InitObjects /\ [][NextPacking]_vars

---------------------------------------------------------------------------
(* Properties *)

ManagerCalls == {"Put", "PutJSON", "GetMetadata", "GetJSON", "Remove"}

\* the failed results MultiGet has received, in the order it received them
MGFailed == SelectSeq(mg.received, LAMBDA r : r.err # Nil)

\* the names of the item list that the storage holds
MGFound == {mg.items[i] : i \in 1..Len(mg.items)} \cap DOMAIN data

\* no item of the list can fail in any way but by being absent, and one is
MGOnlyAbsences ==
    /\ \A i \in 1..Len(mg.items) :
          /\ ~isReservedName(mg.items[i])
          /\ mg.items[i] \notin faulty
          /\ mg.items[i] \in DOMAIN data =>
                (mg.items[i] \in DOMAIN written /\ ext[mg.items[i]] = "none")
    /\ \E i \in 1..Len(mg.items) : mg.items[i] \notin DOMAIN data

\* the workers of pool B that hold an item
Busy(B) == InState(B, "read") + InState(B, "send") + InState(B, "senderr")

\* the removals of the item n that RemoveMany has attempted
RMAttemptsOf(n) ==
    LET S == {a \in DOMAIN rm.attempts : a.id = n}
    IN  BagCardinality([a \in S |-> rm.attempts[a]])

\* C1: when some items of the list are absent from the storage and nothing
\* else fails, MultiGet returns no error and a map holding exactly the items
\* found, each with its content.
MultiGetOmitsAbsent ==
    (mg.pc = "done" /\ MGOnlyAbsences)
        => /\ mg.retErr = Nil
           /\ ~mg.retMap.isNil
           /\ mg.retMap.m = [n \in MGFound |-> written[n].content]

\* C2 as stated: when two or more reads fail, MultiGet returns the error of
\* the first failed result it received, and a nil map.
FirstErrorReturned ==
    (mg.pc = "done" /\ Len(MGFailed) >= 2)
        => (mg.retErr = MGFailed[1].err /\ mg.retMap = NilMap)

\* C2 amended: when one or more reads fail, MultiGet returns the error of the
\* last failed result it received, and a nil map.
LastErrorReturned ==
    (mg.pc = "done" /\ Len(MGFailed) >= 1)
        => (mg.retErr = MGFailed[Len(MGFailed)].err /\ mg.retMap = NilMap)

\* MultiGet has returned after two failures with different errors
TwoErrorsReturned ==
    /\ mg.pc = "done"
    /\ Len(MGFailed) >= 2
    /\ MGFailed[1].err # MGFailed[Len(MGFailed)].err
    /\ mg.retErr = MGFailed[Len(MGFailed)].err

\* C5: at no time do more than 5 workers of MultiGet hold an item, read or
\* not yet handed over, nor more than 30 workers of RemoveMany, however long
\* the list.
PoolsBounded ==
    /\ Busy(mg.workers) <= 5
    /\ Busy(rm.workers) <= 30

\* 30 removals are in flight while an item of the list is still waiting
PoolSaturated ==
    /\ InState(rm.workers, "read") = 30
    /\ rm.fed < Len(rm.items)

\* C6: under fair scheduling a MultiGet call returns, its feeder ends and
\* its 5 workers end, whatever the list.
MultiGetTerminates ==
    (mg.pc = "spawn")
        ~> (/\ mg.pc = "done"
            /\ mg.feeder = "done"
            /\ InState(mg.workers, "exit") = 5
            /\ BagCardinality(mg.workers) = 5)

\* MultiGet of a list with a duplicate and failing items has returned, and
\* every goroutine of it has ended
MultiGetEnded ==
    /\ mg.pc = "done"
    /\ mg.feeder = "done"
    /\ InState(mg.workers, "exit") = 5
    /\ Len(mg.items) = 2
    /\ mg.items[1] = mg.items[2]
    /\ mg.retErr # Nil

\* C7: when MultiGet returns, one result has been received for every entry
\* of the list, every entry has been fed, and no worker holds an item or a
\* result.
ReturnAfterAllResults ==
    mg.pc = "done"
        => /\ Len(mg.received) = Len(mg.items)
           /\ \A n \in Names : CountID(mg.received, n) = CountName(mg.items, n)
           /\ mg.fed = Len(mg.items)
           /\ Busy(mg.workers) = 0

\* MultiGet has returned from a list longer than its pool, with failures
LongListReturned ==
    /\ mg.pc = "done"
    /\ Len(mg.items) > 5
    /\ Len(MGFailed) >= 2
    /\ Len(mg.received) = Len(mg.items)

\* C8: when RemoveMany returns, Remove has been attempted once for every
\* entry of the list, all 30 workers have exited, and the value returned is
\* nil exactly when every removal succeeded and the error of one of the
\* removals otherwise.
RemoveManyContract ==
    rm.pc = "done"
        => /\ \A n \in Names : RMAttemptsOf(n) = CountName(rm.items, n)
           /\ InState(rm.workers, "exit") = 30
           /\ BagCardinality(rm.workers) = 30
           /\ (rm.ret = Nil) <=> (\A a \in DOMAIN rm.attempts : a.err = Nil)
           /\ rm.ret # Nil => \E a \in DOMAIN rm.attempts : a.err = rm.ret

\* RemoveMany has returned an error after one removal failed and another
\* removed the stored item a
RemoveManyPartial ==
    /\ rm.pc = "done"
    /\ rm.ret # Nil
    /\ \E a \in DOMAIN rm.attempts : a.id = "a" /\ a.err = Nil
    /\ "a" \notin DOMAIN data

\* a read of the item lastOp names has just reached the cache
ReadReachedCache ==
    /\ lastOp.op \in {"GetMetadata", "GetJSON"}
    /\ lastOp.touched

\* C11: GetMetadata and GetJSON of a name the backend reports as absent
\* return the manager's ErrNotFound, never storage.ErrBlockNotFound.
AbsentIsErrNotFound ==
    (ReadReachedCache /\ cacheGetBlock(lastOp.id).err = ErrBlockNotFound)
        => /\ lastOp.err = ErrNotFound
           /\ lastOp.err # ErrBlockNotFound
           /\ lastOp.out = <<>>

\* GetJSON of the absent item a has returned ErrNotFound
AbsentJSONRead ==
    /\ lastOp.op = "GetJSON"
    /\ lastOp.id = "a"
    /\ "a" \notin DOMAIN data
    /\ "a" \notin faulty
    /\ lastOp.err = ErrNotFound

\* C12 as stated: a backend error other than not-found met while reading an
\* item is returned as the same error value the backend produced.
BackendErrorUnchanged ==
    (ReadReachedCache /\ cacheGetBlock(lastOp.id).err \notin {Nil, ErrBlockNotFound})
        => lastOp.err = cacheGetBlock(lastOp.id).err

\* C12 amended: a backend error other than not-found met while reading an
\* item is returned as a new error, "unexpected error reading" naming the
\* item, and no content.
BackendErrorWrapped ==
    (ReadReachedCache /\ cacheGetBlock(lastOp.id).err \notin {Nil, ErrBlockNotFound})
        => /\ lastOp.err = ErrUnexpected(lastOp.id)
           /\ lastOp.err # cacheGetBlock(lastOp.id).err
           /\ lastOp.out = <<>>

\* GetMetadata of a has met an I/O error of the backend
BackendErrorRead ==
    /\ lastOp.op = "GetMetadata"
    /\ lastOp.id = "a"
    /\ cacheGetBlock("a").err = ErrIO
    /\ lastOp.err = ErrUnexpected("a")

\* the names of the listing ListContents fetched
MGListed == {mg.items[i] : i \in 1..Len(mg.items)}

\* C13: ListContents returns, without error, a map with one entry for every
\* item of the listing, also when the listing holds a reserved name or an
\* item removed between the listing and the fetch.
ListContentsComplete ==
    mg.pc = "done"
        => /\ mg.retErr = Nil
           /\ ~mg.retMap.isNil
           /\ DOMAIN mg.retMap.m = MGListed

\* no change of another writer is unknown to the cache: none was made since
\* the manager was opened, or RefreshCache has succeeded since, or the
\* manager has itself written or removed the name since
Synced == \A n \in Names : ext[n] \notin {"created", "deleted"}

\* C14: List(prefix) returns exactly the names with that prefix the backend
\* holds, after any sequence of Put, PutJSON, Remove and RemoveMany, and,
\* when another writer changed the backend, once RefreshCache has succeeded.
ListMatchesBackend ==
    (lastOp.op = "List" /\ Synced)
        => lastOp.out = storageListBlocks(lastOp.id)

\* List has returned a name another writer created, after RefreshCache and
\* the removal of a name the manager had put
ListAfterRefresh ==
    /\ lastOp.op = "List"
    /\ lastOp.id = <<>>
    /\ Synced
    /\ lastOp.out = <<"b", "format", "repo">>
    /\ "b" \notin DOMAIN written
    /\ "b" \in DOMAIN data

\* the object the last call names
ObjectRead == CHOOSE x \in objects : x.id = lastObj.id

\* C15: Seek(o) then Read(n) with o + n <= len(B) on the object written
\* from B returns the n bytes B[o:o+n], for a direct and an indirect object.
SeekReadRoundTrip ==
    (lastObj.op = "Read" /\ lastObj.o + lastObj.n <= Len(ObjectRead.content))
        => /\ lastObj.err = Nil
           /\ lastObj.out = SubSeq(ObjectRead.content, lastObj.o + 1, lastObj.o + lastObj.n)

\* a read across the boundary of two chunks of an object much larger than a
\* block, with two levels of indirection
IndirectReadAcross ==
    /\ lastObj.op = "Read"
    /\ lastObj.id.ind = 2
    /\ Len(ObjectRead.content) = 2 * MaxBlockSize + 1
    /\ lastObj.o = MaxBlockSize - 1
    /\ lastObj.n = 2
    /\ lastObj.err = Nil
    /\ lastObj.out = SubSeq(ObjectRead.content, MaxBlockSize, MaxBlockSize + 1)

\* C16: the ObjectID Result returns is the one a single Write of all the
\* bytes gives on an empty repository: it depends on the bytes written and
\* not on how they were divided among the Write calls.
ResultIgnoresWriteCalls ==
    lastObj.op = "Result"
        => /\ writer.result = lastObj.id
           /\ lastObj.id =
                WriteObject([blocks |-> NoBlocks, bm |-> NewBlockManager(-1)], writer.all).id

\* a chunk of MaxBlockSize bytes written in two Write calls has given a
\* direct ObjectID
ChunkInTwoWrites ==
    /\ lastObj.op = "Result"
    /\ writer.calls = 2
    /\ Len(writer.all) = MaxBlockSize
    /\ lastObj.id.ind = 0
    /\ lastObj.id.addr = ContentAddress(writer.all)

\* C3: every manager call given the reserved name format or repo is rejected
\* before it reaches the cache, so the blocks stored under the reserved names
\* stay as they were when the manager was opened: never created, overwritten,
\* read out or deleted through it.
ReservedNamesProtected ==
    /\ (lastOp.op \in ManagerCalls /\ isReservedName(lastOp.id))
            => (lastOp.err # Nil /\ ~lastOp.touched)
    /\ \A n \in {"format", "repo"} : n \in DOMAIN data /\ data[n] = FormatBlock

\* C4: a step that is Put, GetMetadata or Remove with the name format or repo
\* returns the invalid-name error without calling the cache, and leaves the
\* stored blocks and the cached list of names as they were.
ReservedCallLeavesStore ==
    [][(lastOp'.op \in {"Put", "GetMetadata", "Remove"} /\ isReservedName(lastOp'.id))
            => /\ lastOp'.err = ErrInvalidName(lastOp'.id)
               /\ ~lastOp'.touched
               /\ lastOp'.out = <<>>
               /\ data' = data
               /\ cachedNames' = cachedNames]_vars

\* a rejected Remove("format") in a store that also holds the item a
ReservedCallRejected ==
    /\ lastOp.op = "Remove"
    /\ lastOp.id = "format"
    /\ lastOp.err = ErrInvalidName("format")
    /\ DOMAIN data = {"format", "repo", "a"}

\* C9: under NONE and under AES256_GCM, GetMetadata of a non-reserved name
\* whose last write was a successful Put, with no write or removal since,
\* succeeds and returns exactly the content put; GetJSON of a name whose last
\* write was a successful PutJSON succeeds and yields the value put.
PutGetRoundTrip ==
    LET id == lastOp.id
        kept == /\ ~isReservedName(id)
                /\ id \in DOMAIN written
                /\ ext[id] = "none"
    IN  /\ (lastOp.op = "GetMetadata" /\ kept /\ ~written[id].json)
                => (lastOp.err = Nil /\ lastOp.out = written[id].content)
        /\ (lastOp.op = "GetJSON" /\ kept /\ written[id].json)
                => (lastOp.err = Nil /\ lastOp.out = written[id].elems)

\* GetJSON under AES256_GCM has returned the two-element value put before
JSONRoundTripSealed ==
    /\ alg = "AES256_GCM"
    /\ lastOp.op = "GetJSON"
    /\ lastOp.id = "a"
    /\ lastOp.err = Nil
    /\ lastOp.out = <<4, 2>>
    /\ "a" \in DOMAIN written
    /\ written["a"].json

\* C10 as stated: with AES256_GCM, whenever the stored blob of an item differs
\* from what Put stored, GetMetadata of the item returns an error and no
\* plaintext.
ChangedBlobRejected ==
    (/\ lastOp.op = "GetMetadata"
     /\ alg = "AES256_GCM"
     /\ lastOp.id \in DOMAIN written
     /\ lastOp.id \in DOMAIN data
     /\ data[lastOp.id] # written[lastOp.id].blob)
        => (lastOp.err # Nil /\ lastOp.out = <<>>)

\* C10 amended: with AES256_GCM, when the stored blob of an item is what Put
\* stored with one bit flipped (in the nonce, the ciphertext or the tag),
\* GetMetadata of the item returns the authentication error and no plaintext.
FlippedBlobRejected ==
    (/\ lastOp.op = "GetMetadata"
     /\ alg = "AES256_GCM"
     /\ ext[lastOp.id] = "flip")
        => (lastOp.err = ErrOpen /\ lastOp.out = <<>>)

\* GetMetadata has rejected a sealed blob of a non-empty content with a bit
\* of its ciphertext flipped
FlippedBlobRead ==
    /\ lastOp.op = "GetMetadata"
    /\ alg = "AES256_GCM"
    /\ ext[lastOp.id] = "flip"
    /\ written[lastOp.id].content # <<>>
    /\ data[lastOp.id][NonceSize + 1] # written[lastOp.id].blob[NonceSize + 1]
    /\ lastOp.err = ErrOpen

\* the places a content-address is stored at: the pack index blocks listing
\* it and the groups in memory holding it
Places(a) ==
    Cardinality({k \in IndexKeys(blocks) : a \in DOMAIN blocks[k].items})
        + (IF a \in DOMAIN bm.group.items THEN 1 ELSE 0)
        + (IF a \in DOMAIN bm.pending THEN 1 ELSE 0)

\* the content-addresses the storage lists
StoredIndex == MergedIndex(blocks, IndexKeys(blocks))

\* every byte of a pack file belongs to exactly one listed content
PacksHoldNoCopies ==
    \A k \in DOMAIN blocks :
        k.kind = "K" =>
            \A q \in 1..Len(blocks[k].payload) :
                Cardinality({a \in DOMAIN StoredIndex :
                                /\ StoredIndex[a].pack = k.id
                                /\ StoredIndex[a].off < q
                                /\ q <= StoredIndex[a].off + StoredIndex[a].len}) <= 1
                /\ (IndexKey(k.id) \in DOMAIN blocks =>
                        \E a \in DOMAIN blocks[IndexKey(k.id)].items :
                            /\ blocks[IndexKey(k.id)].items[a].off < q
                            /\ q <= blocks[IndexKey(k.id)].items[a].off
                                        + blocks[IndexKey(k.id)].items[a].len)

\* C17: with packing enabled, the same content written any number of
\* times, before or after a Flush, has one ObjectID and is stored at most
\* once; after the calls of TestPackingSimple (c1 twice, c2 twice, Flush,
\* c3 twice, c2, c1, Flush), every block being short enough to be packed,
\* the storage holds 2 format keys and 4 pack and index keys.
ContentStoredOnce ==
    bm.maxPacked >= 0 =>
        /\ \A x, y \in objects : x.content = y.content => x.id = y.id
        /\ \A a \in (DOMAIN StoredIndex) \cup (DOMAIN bm.group.items) \cup (DOMAIN bm.pending) :
                Places(a) <= 1
        /\ PacksHoldNoCopies
        /\ (hist.step = Len(PackingCalls) /\ bm.maxPacked >= MaxBlockSize)
                => /\ Cardinality(DOMAIN data) = 2
                   /\ Cardinality(DOMAIN blocks) = 4

\* the calls of TestPackingSimple were made, c1 written three times
PackingCallsMade ==
    /\ bm.maxPacked >= MaxBlockSize
    /\ hist.step = Len(PackingCalls)
    /\ lastObj.op = "Flush"
    /\ Cardinality({x.id : x \in objects}) = 3
    /\ Cardinality({k \in DOMAIN blocks : k.kind = "K"}) = 2
    /\ Cardinality(IndexKeys(blocks)) = 2

\* the repository opened anew on the storage as it is
Reopened == [blocks |-> blocks, bm |-> OpenBlockManager(blocks, bm.maxPacked)]

\* C18: every object written and flushed reads back identically from the
\* repository reopened on the storage, before and after CompactIndexes
\* with any cutoff, and no call removes a content-address from what the
\* pack index blocks list.
FlushedObjectsSurvive ==
    /\ [](\A x \in objects :
            x.flushed =>
                /\ ReadAll(Reopened, x.id) = [err |-> Nil, out |-> x.content]
                /\ (lastObj.op = "Read" /\ lastObj.id = x.id)
                        => (lastObj.err = Nil /\ lastObj.out = x.content))
    /\ [][(DOMAIN StoredIndex) \subseteq (DOMAIN StoredIndex')]_vars

\* an object flushed into one of two packs is verified after a compaction
\* with a cutoff in the future, which left one index block, and a reopen
ReadAfterCompactionAndReopen ==
    /\ hist.life = "reopened"
    /\ lastObj.op = "Read"
    /\ lastObj.err = Nil
    /\ \E x \in objects : x.flushed /\ x.id = lastObj.id /\ lastObj.out = x.content
    /\ Cardinality(IndexKeys(blocks)) = 1
    /\ Cardinality({StoredIndex[a].pack : a \in DOMAIN StoredIndex}) >= 2

\* the content-addresses of the blocks of an object: its chunks and the
\* blocks of its entry lists
RECURSIVE ObjectBlocks(_, _, _)
ObjectBlocks(s, ind, addr) ==
    IF ind = 0 THEN {addr}
    ELSE LET es == EntriesOf(ReadAll(s, ObjectID(ind - 1, addr)))
         IN  ObjectBlocks(s, ind - 1, addr)
                \cup {es.out[k].addr : k \in 1..Len(es.out)}

\* the blocks written so far: those of the objects completed and the chunks
\* the open writer has handed to the block manager
WrittenBlocks ==
    UNION {ObjectBlocks([blocks |-> blocks, bm |-> bm], x.id.ind, x.id.addr) : x \in objects}
        \cup {writer.entries[k].addr : k \in 1..Len(writer.entries)}

\* C19: when Flush has returned, every block written before it is in the
\* storage and is listed in a pack index block of the storage, none is left
\* in memory only; with one object of a single chunk written, the storage
\* holds one data block and one pack index block beside the two format
\* blocks.
FlushLeavesBlocksStored ==
    lastObj.op = "Flush" =>
        /\ \A a \in WrittenBlocks :
                /\ a \in DOMAIN StoredIndex
                /\ GetBlock(Reopened, a).err = Nil
        /\ DOMAIN bm.group.items = {}
        /\ DOMAIN bm.pending = {}
        /\ (writer.state = "done" /\ \E x \in objects : objects = {x} /\ x.id.ind = 0)
                => /\ Cardinality(DOMAIN data) = 2
                   /\ Cardinality({k \in DOMAIN blocks : k.kind \in {"D", "K"}}) = 1
                   /\ Cardinality(IndexKeys(blocks)) = 1

\* TestWriters: one object shorter than a block written without packing,
\* then Flush
FlushAfterOneObject ==
    /\ lastObj.op = "Flush"
    /\ bm.maxPacked = -1
    /\ writer.state = "done"
    /\ \E x \in objects :
            /\ objects = {x}
            /\ x.id.ind = 0
            /\ x.flushed
            /\ DataKey(x.id.addr) \in DOMAIN blocks
            /\ \E k \in IndexKeys(blocks) : x.id.addr \in DOMAIN blocks[k].items
    /\ Cardinality(DOMAIN data) + Cardinality(DOMAIN blocks) = 4

\* C20: RemoveMany cannot deadlock: a worker that has an error to send
\* always finds a free slot in errch, and under fair scheduling every call,
\* also one in which every removal fails, returns with all 30 workers
\* exited.
RemoveManyNeverBlocks ==
    /\ [](\A w \in DOMAIN rm.workers :
            w.st = "senderr" => Len(rm.errch) < Len(rm.items))
    /\ (rm.pc = "spawn")
            ~> (/\ rm.pc = "done"
                /\ rm.errClosed
                /\ InState(rm.workers, "exit") = parallelism
                /\ BagCardinality(rm.workers) = parallelism)

\* RemoveMany of a list longer than the pool has returned after every
\* removal failed: errch held one error per item
AllRemovalsFailed ==
    /\ rm.pc = "done"
    /\ Len(rm.items) = parallelism + Overflow
    /\ Len(rm.errch) = Len(rm.items)
    /\ \A a \in DOMAIN rm.attempts : a.err # Nil
    /\ InState(rm.workers, "exit") = parallelism
    /\ rm.ret # Nil

\* the entries of the list whose read fails on the storage as it is
MGFailing == {i \in 1..Len(mg.items) : getMetadata(mg.items[i]).err # Nil}

\* what MultiGet returns when its results arrive in the order of the list
MGInOrderError ==
    IF MGFailing = {} THEN Nil
    ELSE getMetadata(mg.items[CHOOSE i \in MGFailing : \A j \in MGFailing : j <= i]).err

MGInOrderMap ==
    IF MGFailing # {} THEN NilMap
    ELSE [isNil |-> FALSE,
          m |-> [n \in {mg.items[i] : i \in 1..Len(mg.items)} |-> getMetadata(n).out]]

\* C21 as stated: for a storage and a list, MultiGet returns under every
\* interleaving of its workers what it returns when the results arrive in
\* the order of the list: the same map, or the same error.
OutcomeSameInEveryOrder ==
    mg.pc = "done" => (mg.retErr = MGInOrderError /\ mg.retMap = MGInOrderMap)

\* C21 amended: for a storage and a list, every interleaving agrees on
\* whether MultiGet returns a map or an error, and on the map; the error
\* returned is that of one of the failing entries, which one depends on the
\* order in which the results arrive.
OutcomeSameButForTheError ==
    mg.pc = "done"
        => /\ mg.retMap = MGInOrderMap
           /\ (mg.retErr = Nil) <=> (MGFailing = {})
           /\ mg.retErr # Nil => \E i \in MGFailing : mg.retErr = getMetadata(mg.items[i]).err

\* MultiGet has returned another error than the one it returns when the
\* results arrive in the order of the list, neither being ErrNotFound
ErrorDependsOnOrder ==
    /\ mg.pc = "done"
    /\ mg.retErr \notin {Nil, ErrNotFound}
    /\ mg.retErr # MGInOrderError
    /\ MGInOrderError # ErrNotFound
    /\ mg.retMap = NilMap
    /\ Len(mg.received) = Len(mg.items)
    /\ mg.received[Len(mg.received)].id # mg.items[Len(mg.items)]

\* C22: with AES256_GCM, GetMetadata of an item whose stored blob has any
\* length, also one shorter than the nonce or empty, ends by returning to
\* its caller, with an error when the blob was cut short; it never aborts
\* with a slice out of range.
ShortBlobReturnsError ==
    (lastOp.op = "GetMetadata" /\ alg = "AES256_GCM")
        => /\ lastOp.err # ErrPanic
           /\ ext[lastOp.id] = "cut" => lastOp.err # Nil


====
